---- MODULE Spec2Model ----
(***************************************************************************)
(* Schonhage-Strassen integer multiplication                               *)
(* (src/integer_multiplication/SchonhageStrassen.js): the entry point that *)
(* strips signs and sizes the top ring, the ring selector ring_for_size,   *)
(* and the recursive multiplication in a Fermat ring.                      *)
(*                                                                         *)
(* BigInt, FermatRing, the base-case multiplier and the bit-length         *)
(* utilities are imported by the source file; they are modelled here from  *)
(* their contracts.                                                        *)
(***************************************************************************)
EXTENDS Integers, Sequences, FiniteSets, TLC

VARIABLES
    entry,      \* the exported function the caller calls
    args,       \* the calls the caller makes, in order, each a record of arguments
    results,    \* what the caller's completed calls returned, in order
    pc,         \* "idle", "run", "select" (inside ring_for_size), "done", "thrown"
    stack,      \* the call stack: frames of multiply and of the ring multiplication
    returned,   \* TRUE when the frame on top has just been returned to, with ret
    ret,        \* the value returned last
    err,        \* the error thrown, if any
    bit_size,   \* ring_for_size: its parameter
    s,          \* ring_for_size: the outer loop variable
    p,          \* ring_for_size: the inner loop variable
    best        \* ring_for_size: best so far

vars == <<entry, args, results, pc, stack, returned, ret, err, bit_size, s, p, best>>

(***************************************************************************)
(* Bounds of the model.                                                    *)
(***************************************************************************)
\* the small operands of multiply are -MaxOperand..MaxOperand
MaxOperand == 17
\* direct calls of ring_for_size take bit_size in 1..MaxBitSize
MaxBitSize == 330
\* operand sizes (in bits) of the size-level runs are 0 and 2^k, k in 0..MaxLgSize
MaxLgSize == 22
\* pointwise multiplications followed per convolution in the size-level runs
MaxPointwise == 2
\* direct size-level calls of the ring multiplication take FermatRing(x, y),
\* x in 0..MaxRingExponent and y in 1..MaxRingPadding
MaxRingExponent == 8
MaxRingPadding == 7

(***************************************************************************)
(* Machine-integer helpers (JavaScript numbers: bit sizes, loop counters). *)
(***************************************************************************)
Max(x, y) == IF x >= y THEN x ELSE y

RECURSIVE Pow2Rec(_)
Pow2Rec(k) == IF k <= 0 THEN 1 ELSE 2 * Pow2Rec(k - 1)

Pow2Table == [k \in 0..30 |-> Pow2Rec(k)]

Pow2(k) == Pow2Table[k]

RECURSIVE BitLength(_)
BitLength(x) == IF x = 0 THEN 0 ELSE 1 + BitLength(x \div 2)

\* JavaScript's x & y on non-negative numbers
RECURSIVE BitAnd(_, _)
BitAnd(x, y) ==
    IF x = 0 \/ y = 0 THEN 0
    ELSE (x % 2) * (y % 2) + 2 * BitAnd(x \div 2, y \div 2)

(***************************************************************************)
(* util.js: ceil_lg2(n), the least k >= 0 with 2^k >= n.                   *)
(***************************************************************************)
RECURSIVE CeilLg2From(_, _)
CeilLg2From(n, k) == IF Pow2(k) >= n THEN k ELSE CeilLg2From(n, k + 1)

ceil_lg2(n) == CeilLg2From(n, 0)

(***************************************************************************)
(* Natural numbers of any width: little-endian sequences of limbs, without *)
(* leading zero limbs (so equal numbers are equal sequences).              *)
(***************************************************************************)
LimbBits == 12

LimbBase == Pow2(LimbBits)

\* the greatest index in lo..hi of a limb of x that is not 0, or 0
RECURSIVE NTopIndex(_, _, _)
NTopIndex(x, lo, hi) ==
    IF lo > hi THEN 0
    ELSE IF lo = hi THEN (IF x[lo] # 0 THEN lo ELSE 0)
    ELSE LET mid == (lo + hi) \div 2
             upper == NTopIndex(x, mid + 1, hi)
         IN  IF upper # 0 THEN upper ELSE NTopIndex(x, lo, mid)

\* x without its leading zero limbs
NNorm(x) == SubSeq(x, 1, NTopIndex(x, 1, Len(x)))

RECURSIVE NOfInt(_)
NOfInt(n) == IF n = 0 THEN << >> ELSE << n % LimbBase >> \o NOfInt(n \div LimbBase)

RECURSIVE NToInt(_)
NToInt(x) == IF x = << >> THEN 0 ELSE x[1] + LimbBase * NToInt(Tail(x))

NLimb(x, i) == IF i <= Len(x) THEN x[i] ELSE 0

\* limbs lo..hi of x + y + carry, and the carry out of them
RECURSIVE NAddRange(_, _, _, _, _)
NAddRange(x, y, lo, hi, carry) ==
    IF lo = hi
    THEN LET t == NLimb(x, lo) + NLimb(y, lo) + carry
         IN  [limbs |-> << t % LimbBase >>, carry |-> t \div LimbBase]
    ELSE LET mid == (lo + hi) \div 2
             lower == NAddRange(x, y, lo, mid, carry)
             upper == NAddRange(x, y, mid + 1, hi, lower.carry)
         IN  [limbs |-> lower.limbs \o upper.limbs, carry |-> upper.carry]

\* the limbs of a sum or product, with the carry out of them as the top limb
NWithCarry(t) == IF t.carry = 0 THEN t.limbs ELSE Append(t.limbs, t.carry)

NAdd(x, y) ==
    IF x = << >> THEN y
    ELSE IF y = << >> THEN x
    ELSE NWithCarry(NAddRange(x, y, 1, Max(Len(x), Len(y)), 0))

\* limbs lo..hi of x - y - borrow, and the borrow out of them
RECURSIVE NSubRange(_, _, _, _, _)
NSubRange(x, y, lo, hi, borrow) ==
    IF lo = hi
    THEN LET t == NLimb(x, lo) - NLimb(y, lo) - borrow
         IN  IF t < 0 THEN [limbs |-> << t + LimbBase >>, borrow |-> 1]
             ELSE [limbs |-> << t >>, borrow |-> 0]
    ELSE LET mid == (lo + hi) \div 2
             lower == NSubRange(x, y, lo, mid, borrow)
             upper == NSubRange(x, y, mid + 1, hi, lower.borrow)
         IN  [limbs |-> lower.limbs \o upper.limbs, borrow |-> upper.borrow]

\* x - y for x >= y
NSub(x, y) ==
    IF y = << >> THEN x ELSE NNorm(NSubRange(x, y, 1, Len(x), 0).limbs)

\* -1, 0, 1 as limbs lo..hi of x are less than, equal to, greater than those of y
RECURSIVE NCmpRange(_, _, _, _)
NCmpRange(x, y, lo, hi) ==
    IF lo > hi THEN 0
    ELSE IF lo = hi
    THEN (IF x[lo] < y[lo] THEN -1 ELSE IF x[lo] > y[lo] THEN 1 ELSE 0)
    ELSE LET mid == (lo + hi) \div 2
             upper == NCmpRange(x, y, mid + 1, hi)
         IN  IF upper # 0 THEN upper ELSE NCmpRange(x, y, lo, mid)

\* -1, 0, 1 as x < y, x = y, x > y
NCmp(x, y) ==
    IF Len(x) < Len(y) THEN -1
    ELSE IF Len(x) > Len(y) THEN 1
    ELSE NCmpRange(x, y, 1, Len(x))

\* limbs lo..hi of x * limb + carry, and the carry out of them
RECURSIVE NMulLimbRange(_, _, _, _, _)
NMulLimbRange(x, limb, lo, hi, carry) ==
    IF lo = hi
    THEN LET t == x[lo] * limb + carry
         IN  [limbs |-> << t % LimbBase >>, carry |-> t \div LimbBase]
    ELSE LET mid == (lo + hi) \div 2
             lower == NMulLimbRange(x, limb, lo, mid, carry)
             upper == NMulLimbRange(x, limb, mid + 1, hi, lower.carry)
         IN  [limbs |-> lower.limbs \o upper.limbs, carry |-> upper.carry]

NMulLimb(x, limb) ==
    IF limb = 0 \/ x = << >> THEN << >>
    ELSE NWithCarry(NMulLimbRange(x, limb, 1, Len(x), 0))

NShiftLimbs(x, n) == IF x = << >> THEN << >> ELSE [i \in 1..n |-> 0] \o x

\* the sum over i in lo..hi of y * x[i] * LimbBase^(i-1)
RECURSIVE NMulRange(_, _, _, _)
NMulRange(x, y, lo, hi) ==
    IF lo > hi THEN << >>
    ELSE IF lo = hi THEN NShiftLimbs(NMulLimb(y, x[lo]), lo - 1)
    ELSE LET mid == (lo + hi) \div 2
         IN  NAdd(NMulRange(x, y, lo, mid), NMulRange(x, y, mid + 1, hi))

NMul(x, y) == NMulRange(x, y, 1, Len(x))

\* x * 2^k
NShl(x, k) == NShiftLimbs(NMulLimb(x, Pow2(k % LimbBits)), k \div LimbBits)

\* floor(x / 2^k)
NShr(x, k) ==
    LET q == k \div LimbBits
        r == k % LimbBits
        n == Len(x) - q
    IN  IF n <= 0 THEN << >>
        ELSE NNorm(<< >> \o [i \in 1..n |->
                     (x[q + i] \div Pow2(r))
                       + (NLimb(x, q + i + 1) % Pow2(r)) * Pow2(LimbBits - r)])

\* x mod 2^k
NLow(x, k) ==
    LET q == k \div LimbBits
        r == k % LimbBits
    IN  IF Len(x) <= q THEN x
        ELSE NNorm(SubSeq(x, 1, q) \o << x[q + 1] % Pow2(r) >>)

\* number of bits
NSize(x) ==
    IF x = << >> THEN 0 ELSE LimbBits * (Len(x) - 1) + BitLength(x[Len(x)])

NOne == << 1 >>

(***************************************************************************)
(* BigInt.js: integers of any width, as sign and magnitude.  Zero is not   *)
(* negative.                                                               *)
(***************************************************************************)
BigInt(negative, magnitude) ==
    [neg |-> negative /\ magnitude # << >>, mag |-> magnitude]

\* BigInt.of, from a machine integer
of(n) == BigInt(n < 0, NOfInt(IF n < 0 THEN -n ELSE n))

\* the machine integer a (small) BigInt denotes
toInt(x) == IF x.neg THEN -NToInt(x.mag) ELSE NToInt(x.mag)

isNegative(x) == x.neg

negate(x) == BigInt(~x.neg, x.mag)

isNegativeOne(x) == x.neg /\ x.mag = NOne

plus(x, y) ==
    IF x.neg = y.neg THEN BigInt(x.neg, NAdd(x.mag, y.mag))
    ELSE IF NCmp(x.mag, y.mag) >= 0 THEN BigInt(x.neg, NSub(x.mag, y.mag))
    ELSE BigInt(y.neg, NSub(y.mag, x.mag))

minus(x, y) == plus(x, negate(y))

times(x, y) == BigInt(x.neg # y.neg, NMul(x.mag, y.mag))

\* x * 2^k
shiftLeft(x, k) == BigInt(x.neg, NShl(x.mag, k))

\* number of bits of the two's complement form, sign excluded
size(x) == IF x.neg THEN NSize(NSub(x.mag, NOne)) ELSE NSize(x.mag)

\* An array of n elements is the sequence of its elements: element i of the
\* array is at index i + 1.  Concatenation makes the sequence an explicit
\* tuple, whose elements are computed once.
Array(f) == << >> \o f

\* piece i holds bits [i*bits_per_piece, (i+1)*bits_per_piece) of x >= 0
splitIntoNPiecesOfSize(x, piece_count, bits_per_piece) ==
    Array([i \in 1..piece_count |->
        BigInt(FALSE, NLow(NShr(x.mag, (i - 1) * bits_per_piece), bits_per_piece))])

\* sum of pieces[i] << (i * bits_per_piece) over the array indices lo..hi
RECURSIVE ShiftSumRange(_, _, _, _)
ShiftSumRange(pieces, lo, hi, bits_per_piece) ==
    IF lo > hi THEN of(0)
    ELSE IF lo = hi THEN shiftLeft(pieces[lo + 1], lo * bits_per_piece)
    ELSE LET mid == (lo + hi) \div 2
         IN  plus(ShiftSumRange(pieces, lo, mid, bits_per_piece),
                  ShiftSumRange(pieces, mid + 1, hi, bits_per_piece))

\* sum of pieces[i] << (i * bits_per_piece)
shiftSum(pieces, bits_per_piece) ==
    ShiftSumRange(pieces, 0, Len(pieces) - 1, bits_per_piece)

(***************************************************************************)
(* Karatsuba.js: the base-case multiplier returns the exact product.       *)
(***************************************************************************)
multiply_integer_Karatsuba(x, y) == times(x, y)

(***************************************************************************)
(* FermatRing.js: the integers modulo 2^(padding * 2^exponent) + 1.  The   *)
(* principal root 2^padding has order 2^(exponent+1), which is also the    *)
(* number of pieces of a convolution in the ring.                          *)
(***************************************************************************)
FermatRing(exponent, padding) ==
    [ principal_root_exponent |-> exponent,
      bit_padding_factor      |-> padding,
      principal_root_order    |-> Pow2(exponent + 1),
      bit_capacity            |-> padding * Pow2(exponent) ]

\* 2^bit_capacity + 1, as a natural number
NDivisor(r) == NAdd(NShl(NOne, r.bit_capacity), NOne)

divisor(r) == BigInt(FALSE, NDivisor(r))

\* u + v modulo d, for u and v in 0 .. d - 1
NReduceOnce(sum, d) == IF NCmp(sum, d) >= 0 THEN NSub(sum, d) ELSE sum

NAddMod(u, v, d) == NReduceOnce(NAdd(u, v), d)

\* u - v modulo d, for u and v in 0 .. d - 1
NSubMod(u, v, d) == IF NCmp(u, v) >= 0 THEN NSub(u, v) ELSE NSub(NAdd(u, d), v)

\* x mod 2^c + 1, in 0 .. 2^c: x is cut at a multiple k*c of c bits, and
\* the upper part counts (-1)^k times
RECURSIVE NModFermat(_, _)
RECURSIVE NModFermatCut(_, _, _)
NModFermatCut(x, r, k) ==
    IF k % 2 = 0
    THEN NAddMod(NModFermat(NLow(x, k * r.bit_capacity), r),
                 NModFermat(NShr(x, k * r.bit_capacity), r), NDivisor(r))
    ELSE NSubMod(NModFermat(NLow(x, k * r.bit_capacity), r),
                 NModFermat(NShr(x, k * r.bit_capacity), r), NDivisor(r))

NModFermat(x, r) ==
    IF NSize(x) <= r.bit_capacity THEN x
    ELSE NModFermatCut(x, r,
            ((NSize(x) + r.bit_capacity - 1) \div r.bit_capacity) \div 2)

\* the residue m of a magnitude, with the sign of the integer
NSigned(negative, m, d) == IF negative /\ m # << >> THEN NSub(d, m) ELSE m

\* the residue of the integer x, in 0 .. 2^c
Residue(r, x) == NSigned(x.neg, NModFermat(x.mag, r), NDivisor(r))

\* the integer that stands for the residue m
OfResidue(r, m) == IF NSize(m) > r.bit_capacity THEN of(-1) ELSE BigInt(FALSE, m)

\* The representative of x modulo the divisor.  The residue 2^bit_capacity
\* (that is, -1) does not fit bit_capacity bits and is kept as the integer -1,
\* which is what isNegativeOne() of a canonicalized value tests for.
canonicalize(r, x) == OfResidue(r, Residue(r, x))

\* a square root of 2 modulo the divisor: 2^(3c/4) - 2^(c/4)
sqrt2(r) ==
    NSub(NShl(NOne, (3 * r.bit_capacity) \div 4), NShl(NOne, r.bit_capacity \div 4))

\* u * v modulo the divisor
NMulMod(u, v, r) == NModFermat(NMul(u, v), r)

NSquareMod(u, r) == NMulMod(u, u, r)

\* x^e modulo the divisor
RECURSIVE PowerMod(_, _, _)
PowerMod(r, x, e) ==
    IF e = 0 THEN NOne
    ELSE IF e % 2 = 0 THEN NSquareMod(PowerMod(r, x, e \div 2), r)
    ELSE NMulMod(NSquareMod(PowerMod(r, x, e \div 2), r), x, r)

\* the powers of x in lower, followed by their products by middle
PowersTimes(r, lower, middle) ==
    lower \o [i \in 1..Len(lower) |-> NMulMod(lower[i], middle, r)]

\* x^0 .. x^(2n-1) from lower = x^0 .. x^(n-1)
PowersTwice(r, x, lower) == PowersTimes(r, lower, NMulMod(lower[Len(lower)], x, r))

\* x^0 .. x^(n-1) modulo the divisor, for n a power of 2
RECURSIVE PowersMod(_, _, _)
PowersMod(r, x, n) ==
    IF n = 1 THEN << NOne >> ELSE PowersTwice(r, x, PowersMod(r, x, n \div 2))

\* the sum of the naturals f[lo] .. f[hi]
RECURSIVE NSumRange(_, _, _)
NSumRange(f, lo, hi) ==
    IF lo > hi THEN << >>
    ELSE IF lo = hi THEN f[lo]
    ELSE LET mid == (lo + hi) \div 2
         IN  NAdd(NSumRange(f, lo, mid), NSumRange(f, mid + 1, hi))

\* results of calls that can throw: a value, or the thrown error
Returned(v) == [thrown |-> FALSE, value |-> v]

Thrown(v) == [thrown |-> TRUE, value |-> v]

\* The negacyclic convolution of two arrays of n pieces (their product as
\* polynomials modulo x^n + 1) over the ring r is computed by a weighted
\* transform: both arrays are transformed, the transforms are multiplied
\* pointwise by the multiplier the caller passes, and the products are
\* transformed back.  The root of unity of order 2n used is sqrt2^padding,
\* whose n-th power is -1.
twiddle_powers(r) ==
    PowersMod(r, PowerMod(r, sqrt2(r), r.bit_padding_factor), 2 * r.principal_root_order)

\* the residues of the elements of an array
residues(r, xs) == Array([i \in 1..Len(xs) |-> Residue(r, xs[i])])

\* the canonical integers of an array of naturals
canonical(r, xs) == Array([i \in 1..Len(xs) |-> canonicalize(r, BigInt(FALSE, xs[i]))])

\* the index in twiddle_powers of twiddle^e, or of twiddle^(-e)
twiddle_index(e, n, inverse) ==
    IF inverse THEN ((2 * n - (e % (2 * n))) % (2 * n)) + 1 ELSE (e % (2 * n)) + 1

\* element k of the transform of res: sum_i res[i] * twiddle^(i * (2k + 1))
\* for the indices i, k of the arrays
forward_sum(res, tpow, n, k) ==
    NSumRange(
        Array([i \in 1..n |->
            NMul(res[i], tpow[twiddle_index((i - 1) * (2 * k - 1), n, FALSE)])]),
        1, n)

\* element i of the inverse transform of res, before the division by n:
\* sum_k res[k] * twiddle^(-i * (2k + 1))
backward_sum(res, tpow, n, i) ==
    NSumRange(
        Array([k \in 1..n |->
            NMul(res[k], tpow[twiddle_index((i - 1) * (2 * k - 1), n, TRUE)])]),
        1, n)

forward_sums(res, tpow, n) == Array([k \in 1..n |-> forward_sum(res, tpow, n, k)])

\* 1/n = 2^(2c - lg n), as 2^(2c) = 1
n_inverse(r) ==
    NModFermat(NShl(NOne, 2 * r.bit_capacity - (r.principal_root_exponent + 1)), r)

backward_sums(r, res, tpow, n, ninv) ==
    Array([i \in 1..n |-> NMul(ninv, NModFermat(backward_sum(res, tpow, n, i), r))])

\* the transform of an array of pieces
convolution_forward(r, pieces) ==
    canonical(r, forward_sums(residues(r, pieces), twiddle_powers(r),
                              r.principal_root_order))

\* the inverse transform of the pointwise products
convolution_backward(r, products) ==
    canonical(r, backward_sums(r, residues(r, products), twiddle_powers(r),
                               r.principal_root_order, n_inverse(r)))

(***************************************************************************)
(* ring_for_size (lines 77-97).                                            *)
(***************************************************************************)
\* line 79: best === undefined is the empty sequence; otherwise <<[p, s, r]>>
undefined == << >>

\* line 83
isSmaller(r, size_wanted) == r.bit_capacity < size_wanted

\* line 84
isEven(size_wanted, sv) == BitAnd(size_wanted, Pow2(sv + 2) - 1) = 0

\* line 85
hasRoom(r, size_wanted, sv) ==
    r.bit_capacity >=
        ((size_wanted + r.principal_root_order - 1) \div r.principal_root_order) * 2
            + sv + 1

\* line 86
canDoSqrt2(sv, pv) == sv >= 3 \/ (sv = 2 /\ BitAnd(pv, 0) = 0)

\* line 87 with >= for >
isBetter_or_equal(bestv, r) ==
    bestv = undefined \/ bestv[1].r.bit_capacity >= r.bit_capacity

\* line 87
isBetter(bestv, r) ==
    bestv = undefined \/ bestv[1].r.bit_capacity > r.bit_capacity

\* line 88 without hasRoom
accepts_without_room(size_wanted, sv, pv, bestv) ==
    LET r == FermatRing(sv, pv - 1)
    IN  /\ isSmaller(r, size_wanted)
        /\ isEven(size_wanted, sv)
        /\ canDoSqrt2(sv, pv)
        /\ isBetter(bestv, r)

\* line 88: the condition under which the iteration (sv, pv) replaces best
accepts(size_wanted, sv, pv, bestv) ==
    LET r == FermatRing(sv, pv - 1)
    IN  /\ isSmaller(r, size_wanted)
        /\ isEven(size_wanted, sv)
        /\ hasRoom(r, size_wanted, sv)
        /\ canDoSqrt2(sv, pv)
        /\ isBetter(bestv, r)

\* lines 82-90: the body of the inner loop, giving the new value of best
ring_loop_body(size_wanted, sv, pv, bestv) ==
    IF accepts(size_wanted, sv, pv, bestv)
    THEN << [p |-> pv, s |-> sv, r |-> FermatRing(sv, pv - 1)] >>
    ELSE bestv

\* lines 93-96 with a ring returned where the error is thrown
ring_result_without_throw(size_wanted, bestv) ==
    IF bestv = undefined THEN Returned(FermatRing(1, 1)) ELSE Returned(bestv[1].r)

\* lines 93-96
ring_result(size_wanted, bestv) ==
    IF bestv = undefined THEN Thrown(size_wanted) ELSE Returned(bestv[1].r)

(***************************************************************************)
(* multiply_integer_SchonhageStrassen_ring (lines 36-69).                  *)
(***************************************************************************)
\* line 41 without the case of 40 bits
is_base_case_without_40(r) == r.bit_capacity # 16 /\ r.bit_capacity < 32

\* line 41
is_base_case(r) ==
    (r.bit_capacity # 16 /\ r.bit_capacity < 32) \/ r.bit_capacity = 40

\* line 66
carry_correct(e, inner_ring) ==
    IF size(e) = inner_ring.bit_capacity THEN minus(e, divisor(inner_ring)) ELSE e

(***************************************************************************)
(* multiply_integer_SchonhageStrassen (lines 13-25).                       *)
(***************************************************************************)
\* lines 22-23 with the smaller of the two sizes
top_ring_of_smaller(x, y) ==
    LET n == (IF size(x) <= size(y) THEN size(x) ELSE size(y)) * 2
    IN  FermatRing(ceil_lg2(n), 1)

\* lines 22-23
top_ring(x, y) ==
    LET n == Max(size(x), size(y)) * 2
    IN  FermatRing(ceil_lg2(n), 1)


(***************************************************************************)
(* The call stack.  A frame is a call of multiply_integer_SchonhageStrassen *)
(* (fn = "multiply") or of multiply_integer_SchonhageStrassen_ring          *)
(* (fn = "ring"); "at" is the place the call has got to.                    *)
(***************************************************************************)
MultiplyFrame(x, y) ==
    [ fn |-> "multiply", at |-> "entry", a |-> x, b |-> y,
      ring |-> << >>, inner_ring |-> << >>,
      hatA |-> << >>, hatB |-> << >>, hatC |-> << >> ]

RingFrame(x, y, r) ==
    [ fn |-> "ring", at |-> "entry", a |-> x, b |-> y,
      ring |-> r, inner_ring |-> << >>,
      hatA |-> << >>, hatB |-> << >>, hatC |-> << >> ]

Top == stack[Len(stack)]

Popped == SubSeq(stack, 1, Len(stack) - 1)

WithTop(frame) == [stack EXCEPT ![Len(stack)] = frame]

NoError == [thrown |-> FALSE, value |-> 0]

Running(function, place) ==
    /\ pc = "run"
    /\ stack # << >>
    /\ Top.fn = function
    /\ Top.at = place

\* the frame on top returns v to its caller
Return(v) ==
    /\ stack' = Popped
    /\ ret' = v
    /\ returned' = TRUE

(***************************************************************************)
(* The caller: it makes the calls of args one after the other and keeps    *)
(* what they return.                                                       *)
(***************************************************************************)
\* the arguments of the call the caller makes next, or is making
Call == args[Len(results) + 1]

CallMultiply ==
    /\ pc = "idle"
    /\ entry = "multiply"
    /\ Len(results) < Len(args)
    /\ stack' = << MultiplyFrame(Call.a, Call.b) >>
    /\ pc' = "run"
    /\ returned' = FALSE
    /\ UNCHANGED <<entry, args, results, ret, err, bit_size, s, p, best>>

CallRing ==
    /\ pc = "idle"
    /\ entry = "ring"
    /\ Len(results) < Len(args)
    /\ stack' = << RingFrame(Call.a, Call.b, Call.ring) >>
    /\ pc' = "run"
    /\ returned' = FALSE
    /\ UNCHANGED <<entry, args, results, ret, err, bit_size, s, p, best>>

\* the call returned to the caller
CallReturned ==
    /\ pc = "run"
    /\ stack = << >>
    /\ returned
    /\ results' = Append(results, ret)
    /\ pc' = IF Len(results) + 1 = Len(args) THEN "done" ELSE "idle"
    /\ returned' = FALSE
    /\ UNCHANGED <<entry, args, stack, ret, err, bit_size, s, p, best>>

(***************************************************************************)
(* multiply_integer_SchonhageStrassen, step by step (lines 13-25).         *)
(***************************************************************************)
\* lines 16-18: a is negative; the call multiply(a.negate(), b)
MultiplyNegativeA ==
    /\ Running("multiply", "entry")
    /\ isNegative(Top.a)
    /\ stack' = Append(WithTop([Top EXCEPT !.at = "negate_a"]),
                       MultiplyFrame(negate(Top.a), Top.b))
    /\ UNCHANGED <<entry, args, results, pc, returned, ret, err, bit_size, s, p, best>>

\* lines 19-21: b is negative; the call multiply(a, b.negate())
MultiplyNegativeB ==
    /\ Running("multiply", "entry")
    /\ ~isNegative(Top.a)
    /\ isNegative(Top.b)
    /\ stack' = Append(WithTop([Top EXCEPT !.at = "negate_b"]),
                       MultiplyFrame(Top.a, negate(Top.b)))
    /\ UNCHANGED <<entry, args, results, pc, returned, ret, err, bit_size, s, p, best>>

\* lines 22-24: the call of the ring multiplication in the top ring
MultiplyDelegate ==
    /\ Running("multiply", "entry")
    /\ ~isNegative(Top.a)
    /\ ~isNegative(Top.b)
    /\ stack' = Append(WithTop([Top EXCEPT !.at = "delegate"]),
                       RingFrame(Top.a, Top.b, top_ring(Top.a, Top.b)))
    /\ UNCHANGED <<entry, args, results, pc, returned, ret, err, bit_size, s, p, best>>

\* line 17 without .negate()
MultiplyReturnUnnegatedA ==
    /\ Running("multiply", "negate_a")
    /\ returned
    /\ Return(ret)
    /\ UNCHANGED <<entry, args, results, pc, err, bit_size, s, p, best>>

\* line 17: return multiply(a.negate(), b).negate()
MultiplyReturnNegatedA ==
    /\ Running("multiply", "negate_a")
    /\ returned
    /\ Return(negate(ret))
    /\ UNCHANGED <<entry, args, results, pc, err, bit_size, s, p, best>>

\* line 20 without .negate()
MultiplyReturnUnnegatedB ==
    /\ Running("multiply", "negate_b")
    /\ returned
    /\ Return(ret)
    /\ UNCHANGED <<entry, args, results, pc, err, bit_size, s, p, best>>

\* line 20: return multiply(a, b.negate()).negate()
MultiplyReturnNegatedB ==
    /\ Running("multiply", "negate_b")
    /\ returned
    /\ Return(negate(ret))
    /\ UNCHANGED <<entry, args, results, pc, err, bit_size, s, p, best>>

\* line 24: return what the ring multiplication returned
MultiplyReturnDelegated ==
    /\ Running("multiply", "delegate")
    /\ returned
    /\ Return(ret)
    /\ UNCHANGED <<entry, args, results, pc, err, bit_size, s, p, best>>

(***************************************************************************)
(* multiply_integer_SchonhageStrassen_ring, step by step (lines 36-69).    *)
(***************************************************************************)
\* lines 37-38: the canonical operands of the frame on top
CanonicalA == canonicalize(Top.ring, Top.a)

CanonicalB == canonicalize(Top.ring, Top.b)

\* lines 41-43: the base case
RingBaseCase ==
    /\ Running("ring", "entry")
    /\ is_base_case(Top.ring)
    /\ Return(canonicalize(Top.ring, multiply_integer_Karatsuba(CanonicalA, CanonicalB)))
    /\ UNCHANGED <<entry, args, results, pc, err, bit_size, s, p, best>>

\* lines 46-48: a is -1
RingNegativeOneA ==
    /\ Running("ring", "entry")
    /\ ~is_base_case(Top.ring)
    /\ isNegativeOne(CanonicalA)
    /\ Return(canonicalize(Top.ring, negate(CanonicalB)))
    /\ UNCHANGED <<entry, args, results, pc, err, bit_size, s, p, best>>

\* lines 49-51: b is -1
RingNegativeOneB ==
    /\ Running("ring", "entry")
    /\ ~is_base_case(Top.ring)
    /\ ~isNegativeOne(CanonicalA)
    /\ isNegativeOne(CanonicalB)
    /\ Return(canonicalize(Top.ring, negate(CanonicalA)))
    /\ UNCHANGED <<entry, args, results, pc, err, bit_size, s, p, best>>

\* line 54: the call ring_for_size(ring.bit_capacity); lines 78-81, the
\* start of its loops
RingSelect ==
    /\ Running("ring", "entry")
    /\ ~is_base_case(Top.ring)
    /\ ~isNegativeOne(CanonicalA)
    /\ ~isNegativeOne(CanonicalB)
    /\ stack' = WithTop([Top EXCEPT !.at = "select", !.a = CanonicalA, !.b = CanonicalB])
    /\ pc' = "select"
    /\ bit_size' = Top.ring.bit_capacity
    /\ s' = ceil_lg2(Top.ring.bit_capacity)
    /\ p' = Max(2, ceil_lg2(Top.ring.bit_capacity))
    /\ best' = undefined
    /\ UNCHANGED <<entry, args, results, returned, ret, err>>

(***************************************************************************)
(* ring_for_size, step by step (lines 77-97).                              *)
(***************************************************************************)
\* lines 80-91: one iteration of the inner loop, and the step to the next
SelectIterate ==
    /\ pc = "select"
    /\ s > 0
    /\ best' = ring_loop_body(bit_size, s, p, best)
    /\ IF p + 1 <= 4 * s
       THEN /\ p' = p + 1
            /\ s' = s
       ELSE /\ s' = s - 1
            /\ p' = Max(2, s - 1)
    /\ UNCHANGED <<entry, args, results, pc, stack, returned, ret, err, bit_size>>

\* lines 93-95: no ring was found.  Nothing catches the error: it ends every
\* call on the stack.
SelectThrow ==
    /\ pc = "select"
    /\ ~(s > 0)
    /\ ring_result(bit_size, best).thrown
    /\ err' = ring_result(bit_size, best)
    /\ stack' = << >>
    /\ pc' = "thrown"
    /\ UNCHANGED <<entry, args, results, returned, ret, bit_size, s, p, best>>

\* line 96, and line 54: the ring multiplication gets its inner ring
SelectReturn ==
    /\ pc = "select"
    /\ ~(s > 0)
    /\ ~ring_result(bit_size, best).thrown
    /\ stack # << >>
    /\ stack' = WithTop([Top EXCEPT !.at = "split",
                                    !.inner_ring = ring_result(bit_size, best).value])
    /\ pc' = "run"
    /\ UNCHANGED <<entry, args, results, returned, ret, err, bit_size, s, p, best>>

(***************************************************************************)
(* multiply_integer_SchonhageStrassen_ring, continued.                     *)
(***************************************************************************)
\* line 55
piece_count(inner_ring) == inner_ring.principal_root_order

\* line 56
bits_per_piece(r, inner_ring) ==
    r.bit_capacity \div Pow2(inner_ring.principal_root_exponent + 1)

\* lines 57-58
pieces_of(x, r, inner_ring) ==
    splitIntoNPiecesOfSize(x, piece_count(inner_ring), bits_per_piece(r, inner_ring))

\* lines 55-58: the operands are split; line 62: negacyclic_convolution
\* transforms the pieces
RingSplit ==
    /\ Running("ring", "split")
    /\ stack' = WithTop(
         [Top EXCEPT
            !.at = "convolve",
            !.hatA = convolution_forward(Top.inner_ring,
                                         pieces_of(Top.a, Top.ring, Top.inner_ring)),
            !.hatB = convolution_forward(Top.inner_ring,
                                         pieces_of(Top.b, Top.ring, Top.inner_ring))])
    /\ UNCHANGED <<entry, args, results, pc, returned, ret, err, bit_size, s, p, best>>

\* line 61: negacyclic_convolution calls inner_multiply for the next pair
RingPointwiseCall ==
    /\ Running("ring", "convolve")
    /\ ~returned
    /\ Len(Top.hatC) < piece_count(Top.inner_ring)
    /\ stack' = Append(stack, RingFrame(Top.hatA[Len(Top.hatC) + 1],
                                        Top.hatB[Len(Top.hatC) + 1],
                                        Top.inner_ring))
    /\ UNCHANGED <<entry, args, results, pc, returned, ret, err, bit_size, s, p, best>>

\* line 61: inner_multiply returned the product of the pair
RingPointwiseReturn ==
    /\ Running("ring", "convolve")
    /\ returned
    /\ stack' = WithTop([Top EXCEPT !.hatC = Append(Top.hatC, ret)])
    /\ returned' = FALSE
    /\ UNCHANGED <<entry, args, results, pc, ret, err, bit_size, s, p, best>>

\* lines 62-68: the products are transformed back (the end of
\* negacyclic_convolution), corrected and recombined
carry_corrected(piecesC, inner_ring) ==
    Array([i \in 1..Len(piecesC) |-> carry_correct(piecesC[i], inner_ring)])

recombine(r, inner_ring, products) ==
    canonicalize(r, shiftSum(carry_corrected(convolution_backward(inner_ring, products),
                                             inner_ring),
                             bits_per_piece(r, inner_ring)))

RingCombine ==
    /\ Running("ring", "convolve")
    /\ ~returned
    /\ Len(Top.hatC) = piece_count(Top.inner_ring)
    /\ Return(recombine(Top.ring, Top.inner_ring, Top.hatC))
    /\ UNCHANGED <<entry, args, results, pc, err, bit_size, s, p, best>>

(***************************************************************************)
(* The runs on values: the caller calls multiply on a pair of operands     *)
(* under the four combinations of signs, or calls the ring multiplication  *)
(* once.                                                                   *)
(***************************************************************************)
SmallOperands == { of(v) : v \in 0..MaxOperand }

\* pairs of operands that need the top rings of 16, 32, 64, 128 and 256 bits;
\* the transforms of 2^21 and 2^10 have elements equal to -1
LargePairs ==
    { << of(255), of(255) >>,
      << of(65535), of(40000) >>,
      << of(123456789), of(987654321) >>,
      << shiftLeft(of(3), 62), of(5) >>,
      << shiftLeft(of(1), 21), shiftLeft(of(1), 10) >>,
      << shiftLeft(of(1), 64), shiftLeft(of(1), 64) >>,
      << shiftLeft(of(1), 64), of(1) >>,
      << shiftLeft(of(1), 64), of(0) >> }

OperandPairs == (SmallOperands \X SmallOperands) \cup LargePairs

SignVariants(x, y) ==
    << [a |-> x, b |-> y],
       [a |-> negate(x), b |-> y],
       [a |-> x, b |-> negate(y)],
       [a |-> negate(x), b |-> negate(y)] >>

\* rings of bit capacity 8, 24 and 40 (base cases), 16, 16, 32, 48, 96 and
\* 160 (split), and 56 (no inner ring)
TestRings ==
    { FermatRing(2, 2), FermatRing(3, 3), FermatRing(3, 5),
      FermatRing(4, 1), FermatRing(3, 2), FermatRing(5, 1), FermatRing(4, 3),
      FermatRing(4, 6), FermatRing(5, 5), FermatRing(3, 7) }

\* 2^bit_capacity - 1, the largest canonical value
AllOnes(r) == minus(shiftLeft(of(1), r.bit_capacity), of(1))

RingOperands(r) ==
    { of(-1), of(1), of(3), AllOnes(r),
      plus(shiftLeft(of(1), r.bit_capacity - 1), of(1)) }

RingCalls ==
    UNION { { << [a |-> x, b |-> y, ring |-> r] >> :
                x \in RingOperands(r), y \in RingOperands(r) } : r \in TestRings }

Init ==
    /\ entry \in {"multiply", "ring"}
    /\ args \in IF entry = "multiply"
                THEN { SignVariants(pair[1], pair[2]) : pair \in OperandPairs }
                ELSE RingCalls
    /\ results = << >>
    /\ pc = "idle"
    /\ stack = << >>
    /\ returned = FALSE
    /\ ret = of(0)
    /\ err = NoError
    /\ bit_size = 0
    /\ s = 0
    /\ p = 0
    /\ best = undefined

Next ==
    \/ CallMultiply
    \/ CallRing
    \/ CallReturned
    \/ MultiplyNegativeA
    \/ MultiplyNegativeB
    \/ MultiplyDelegate
    \/ MultiplyReturnNegatedA
    \/ MultiplyReturnNegatedB
    \/ MultiplyReturnDelegated
    \/ RingBaseCase
    \/ RingNegativeOneA
    \/ RingNegativeOneB
    \/ RingSelect
    \/ SelectIterate
    \/ SelectThrow
    \/ SelectReturn
    \/ RingSplit
    \/ RingPointwiseCall
    \/ RingPointwiseReturn
    \/ RingCombine

Spec == Init /\ [][Next]_vars

(***************************************************************************)
(* A run on operands of 1025 bits: the top ring has 4096 bits and its      *)
(* inner ring 160.                                                         *)
(***************************************************************************)
DeepOperand == shiftLeft(of(1), 1024)

DeepCalls ==
    { << [a |-> negate(DeepOperand), b |-> negate(DeepOperand)] >>,
      << [a |-> shiftLeft(of(1), 21), b |-> shiftLeft(of(1), 10)] >> }

InitDeep ==
    /\ entry = "multiply"
    /\ args \in DeepCalls
    /\ results = << >>
    /\ pc = "idle"
    /\ stack = << >>
    /\ returned = FALSE
    /\ ret = of(0)
    /\ err = NoError
    /\ bit_size = 0
    /\ s = 0
    /\ p = 0
    /\ best = undefined

NextDeep ==
    \/ CallMultiply
    \/ CallReturned
    \/ MultiplyNegativeA
    \/ MultiplyNegativeB
    \/ MultiplyDelegate
    \/ MultiplyReturnNegatedA
    \/ MultiplyReturnNegatedB
    \/ MultiplyReturnDelegated
    \/ RingBaseCase
    \/ RingNegativeOneA
    \/ RingNegativeOneB
    \/ RingSelect
    \/ SelectIterate
    \/ SelectReturn
    \/ RingSplit
    \/ RingPointwiseCall
    \/ RingPointwiseReturn
    \/ RingCombine

SpecDeep == InitDeep /\ [][NextDeep]_vars

(***************************************************************************)
(* The runs on sizes.  An operand of multiply is its sign and the number   *)
(* of bits of its magnitude; the elements of a ring are not told apart.    *)
(* These runs follow the rings: which ring multiply starts from, which     *)
(* inner ring ring_for_size gives for it, and so on down.                  *)
(***************************************************************************)
Sized(negative, bits) == [neg |-> negative, bits |-> bits]

\* x.negate()
negate_sized(x) == Sized(~x.neg, x.bits)

\* some element of a ring, or some product
Unknown == [unknown |-> TRUE]

\* lines 22-23, for non-negative operands, whose size() is the number of
\* bits of the magnitude
top_ring_sized(x, y) == FermatRing(ceil_lg2(Max(x.bits, y.bits) * 2), 1)

CallMultiplySized ==
    /\ pc = "idle"
    /\ entry = "multiply"
    /\ Len(results) < Len(args)
    /\ stack' = << MultiplyFrame(Call.a, Call.b) >>
    /\ pc' = "run"
    /\ returned' = FALSE
    /\ UNCHANGED <<entry, args, results, ret, err, bit_size, s, p, best>>

CallRingSized ==
    /\ pc = "idle"
    /\ entry = "ring"
    /\ Len(results) < Len(args)
    /\ stack' = << RingFrame(Unknown, Unknown, Call.ring) >>
    /\ pc' = "run"
    /\ returned' = FALSE
    /\ UNCHANGED <<entry, args, results, ret, err, bit_size, s, p, best>>

\* a direct call of ring_for_size; lines 78-81, the start of its loops
CallRingForSize ==
    /\ pc = "idle"
    /\ entry = "ring_for_size"
    /\ Len(results) < Len(args)
    /\ pc' = "select"
    /\ bit_size' = Call.bit_size
    /\ s' = ceil_lg2(Call.bit_size)
    /\ p' = Max(2, ceil_lg2(Call.bit_size))
    /\ best' = undefined
    /\ returned' = FALSE
    /\ UNCHANGED <<entry, args, results, stack, ret, err>>

\* line 96: the ring goes to the caller of ring_for_size
SelectReturnToCaller ==
    /\ pc = "select"
    /\ ~(s > 0)
    /\ ~ring_result(bit_size, best).thrown
    /\ stack = << >>
    /\ ret' = ring_result(bit_size, best).value
    /\ returned' = TRUE
    /\ pc' = "run"
    /\ UNCHANGED <<entry, args, results, stack, err, bit_size, s, p, best>>

\* lines 16-18
MultiplyNegativeASized ==
    /\ Running("multiply", "entry")
    /\ Top.a.neg
    /\ stack' = Append(WithTop([Top EXCEPT !.at = "negate_a"]),
                       MultiplyFrame(negate_sized(Top.a), Top.b))
    /\ UNCHANGED <<entry, args, results, pc, returned, ret, err, bit_size, s, p, best>>

\* lines 19-21
MultiplyNegativeBSized ==
    /\ Running("multiply", "entry")
    /\ ~Top.a.neg
    /\ Top.b.neg
    /\ stack' = Append(WithTop([Top EXCEPT !.at = "negate_b"]),
                       MultiplyFrame(Top.a, negate_sized(Top.b)))
    /\ UNCHANGED <<entry, args, results, pc, returned, ret, err, bit_size, s, p, best>>

\* lines 22-24
MultiplyDelegateSized ==
    /\ Running("multiply", "entry")
    /\ ~Top.a.neg
    /\ ~Top.b.neg
    /\ stack' = Append(WithTop([Top EXCEPT !.at = "delegate"]),
                       RingFrame(Unknown, Unknown, top_ring_sized(Top.a, Top.b)))
    /\ UNCHANGED <<entry, args, results, pc, returned, ret, err, bit_size, s, p, best>>

\* lines 17, 20 and 24: multiply returns
MultiplyReturnSized ==
    /\ pc = "run"
    /\ stack # << >>
    /\ Top.fn = "multiply"
    /\ Top.at \in {"negate_a", "negate_b", "delegate"}
    /\ returned
    /\ Return(Unknown)
    /\ UNCHANGED <<entry, args, results, pc, err, bit_size, s, p, best>>

\* lines 41-43
RingBaseCaseSized ==
    /\ Running("ring", "entry")
    /\ is_base_case(Top.ring)
    /\ Return(Unknown)
    /\ UNCHANGED <<entry, args, results, pc, err, bit_size, s, p, best>>

\* lines 46-51: an operand may be -1
RingNegativeOneSized ==
    /\ Running("ring", "entry")
    /\ ~is_base_case(Top.ring)
    /\ Return(Unknown)
    /\ UNCHANGED <<entry, args, results, pc, err, bit_size, s, p, best>>

\* line 54, when no operand is -1; lines 78-81
RingSelectSized ==
    /\ Running("ring", "entry")
    /\ ~is_base_case(Top.ring)
    /\ stack' = WithTop([Top EXCEPT !.at = "select"])
    /\ pc' = "select"
    /\ bit_size' = Top.ring.bit_capacity
    /\ s' = ceil_lg2(Top.ring.bit_capacity)
    /\ p' = Max(2, ceil_lg2(Top.ring.bit_capacity))
    /\ best' = undefined
    /\ UNCHANGED <<entry, args, results, returned, ret, err>>

\* lines 55-58
RingSplitSized ==
    /\ Running("ring", "split")
    /\ stack' = WithTop([Top EXCEPT !.at = "convolve"])
    /\ UNCHANGED <<entry, args, results, pc, returned, ret, err, bit_size, s, p, best>>

\* the pointwise multiplications followed in a convolution
PointwiseFollowed(inner_ring) ==
    IF piece_count(inner_ring) < MaxPointwise THEN piece_count(inner_ring)
    ELSE MaxPointwise

\* line 61 with the ring of the caller for the inner ring
RingPointwiseCallSameRing ==
    /\ Running("ring", "convolve")
    /\ ~returned
    /\ Len(Top.hatC) < PointwiseFollowed(Top.inner_ring)
    /\ stack' = Append(stack, RingFrame(Unknown, Unknown, Top.ring))
    /\ UNCHANGED <<entry, args, results, pc, returned, ret, err, bit_size, s, p, best>>

\* line 61
RingPointwiseCallSized ==
    /\ Running("ring", "convolve")
    /\ ~returned
    /\ Len(Top.hatC) < PointwiseFollowed(Top.inner_ring)
    /\ stack' = Append(stack, RingFrame(Unknown, Unknown, Top.inner_ring))
    /\ UNCHANGED <<entry, args, results, pc, returned, ret, err, bit_size, s, p, best>>

\* lines 62-68
RingCombineSized ==
    /\ Running("ring", "convolve")
    /\ ~returned
    /\ Len(Top.hatC) = PointwiseFollowed(Top.inner_ring)
    /\ Return(Unknown)
    /\ UNCHANGED <<entry, args, results, pc, err, bit_size, s, p, best>>

\* the numbers of bits of the operands: 0 and the powers of 2
OperandBits == {0} \cup { Pow2(k) : k \in 0..MaxLgSize }

SizedOperands ==
    { Sized(negative, bits) : negative \in BOOLEAN, bits \in OperandBits }
        \ { Sized(TRUE, 0) }

MultiplyCallsSized ==
    { << [a |-> x, b |-> y] >> :
        x \in SizedOperands, y \in { Sized(FALSE, 0), Sized(TRUE, 1) } }

RingCallsSized ==
    { << [ring |-> FermatRing(x, y)] >> :
        x \in 0..MaxRingExponent, y \in 1..MaxRingPadding }

RingForSizeCalls == { << [bit_size |-> n] >> : n \in 1..MaxBitSize }

InitSize ==
    /\ entry \in {"multiply", "ring", "ring_for_size"}
    /\ args \in CASE entry = "multiply" -> MultiplyCallsSized
                  [] entry = "ring" -> RingCallsSized
                  [] OTHER -> RingForSizeCalls
    /\ results = << >>
    /\ pc = "idle"
    /\ stack = << >>
    /\ returned = FALSE
    /\ ret = Unknown
    /\ err = NoError
    /\ bit_size = 0
    /\ s = 0
    /\ p = 0
    /\ best = undefined

NextSize ==
    \/ CallMultiplySized
    \/ CallRingSized
    \/ CallRingForSize
    \/ CallReturned
    \/ MultiplyNegativeASized
    \/ MultiplyNegativeBSized
    \/ MultiplyDelegateSized
    \/ MultiplyReturnSized
    \/ RingBaseCaseSized
    \/ RingNegativeOneSized
    \/ RingSelectSized
    \/ SelectIterate
    \/ SelectThrow
    \/ SelectReturn
    \/ SelectReturnToCaller
    \/ RingSplitSized
    \/ RingPointwiseCallSized
    \/ RingPointwiseReturn
    \/ RingCombineSized

SpecSize == InitSize /\ [][NextSize]_vars

(***************************************************************************)
(* Properties of the runs on values.                                       *)
(***************************************************************************)
\* C1: every call multiply(a, b) the caller has completed returned the exact
\* product a * b, as the reference multiplication of the magnitudes with the
\* sign rule gives it.
MultiplyReturnsProduct ==
    entry = "multiply" =>
        \A i \in 1..Len(results) : results[i] = times(args[i].a, args[i].b)

\* C2: once the caller has made the four calls multiply(x, y), multiply(-x, y),
\* multiply(x, -y) and multiply(-x, -y), the results obey the sign laws:
\* the first is the negation of the second and of the third, and equals the
\* fourth.
SignLaws ==
    (entry = "multiply" /\ pc = "done") =>
        /\ results[1] = negate(results[2])
        /\ negate(results[2]) = negate(results[3])
        /\ negate(results[3]) = results[4]

\* the four calls are over, and the product is not 0: the second and the third
\* call returned a negative value
SignLawsWitness ==
    /\ entry = "multiply"
    /\ pc = "done"
    /\ isNegative(results[2])
    /\ isNegative(results[3])
    /\ ~isNegative(results[4])
    /\ size(results[4]) > 32

\* C3: every completed call multiply(a, 0) returned 0, every completed call
\* multiply(a, 1) returned a and every completed call multiply(a, -1) returned
\* -a; a = 0, where n is least, is among the operands.
IdentityAndZero ==
    entry = "multiply" =>
        \A i \in 1..Len(results) :
            /\ args[i].b = of(0) => results[i] = of(0)
            /\ args[i].b = of(1) => results[i] = args[i].a
            /\ args[i].b = of(-1) => results[i] = negate(args[i].a)

\* the calls multiply(2^64, 1) and multiply(2^64, -1) are over
IdentityAndZeroWitness ==
    /\ entry = "multiply"
    /\ pc = "done"
    /\ args[1].b = of(1)
    /\ args[3].b = of(-1)
    /\ size(args[1].a) > 64
    /\ results[3] = negate(args[1].a)

\* C4: every completed call of the ring multiplication returned
\* canonicalize(a * b) in its ring, whichever path it took.
RingReturnsCanonicalProduct ==
    entry = "ring" =>
        \A i \in 1..Len(results) :
            results[i] = canonicalize(args[i].ring, times(args[i].a, args[i].b))

\* C9 (as stated): when a is not negative and b is negative, multiply(a, b)
\* returns what multiply(a, -b) returns.
NegativeBReturnsCallOfNegated ==
    entry = "multiply" =>
        \A i, j \in 1..Len(results) :
            ( /\ ~isNegative(args[i].a)
              /\ isNegative(args[i].b)
              /\ args[j].a = args[i].a
              /\ args[j].b = negate(args[i].b) )
            => results[i] = results[j]

\* C9 (amended): when a is not negative and b is negative, multiply(a, b)
\* returns the negation of what multiply(a, -b) returns.
NegativeBReturnsNegation ==
    entry = "multiply" =>
        \A i, j \in 1..Len(results) :
            ( /\ ~isNegative(args[i].a)
              /\ isNegative(args[i].b)
              /\ args[j].a = args[i].a
              /\ args[j].b = negate(args[i].b) )
            => results[i] = negate(results[j])

\* the calls multiply(x, y) and multiply(x, -y) are over, x > 0 and y > 0
NegativeBWitness ==
    /\ entry = "multiply"
    /\ Len(results) >= 3
    /\ ~isNegative(args[3].a)
    /\ isNegative(args[3].b)
    /\ args[1].b = negate(args[3].b)
    /\ results[1] # of(0)
    /\ results[3] = negate(results[1])


(***************************************************************************)
(* Properties of the runs on sizes.                                        *)
(***************************************************************************)
\* the candidates (s, p) of the sweep of ring_for_size(size_wanted)
Sweep(size_wanted) ==
    { c \in (1..ceil_lg2(size_wanted)) \X (2..(4 * ceil_lg2(size_wanted))) :
        c[2] >= Max(2, c[1]) /\ c[2] <= 4 * c[1] }

\* c comes before d in the sweep: s descending, then p ascending
Before(c, d) == c[1] > d[1] \/ (c[1] = d[1] /\ c[2] < d[2])

CeilDiv(x, y) == IF x % y = 0 THEN x \div y ELSE (x \div y) + 1

\* the four predicates, for the candidate c = (s, p) and its ring
PassesAll(size_wanted, c) ==
    LET r == FermatRing(c[1], c[2] - 1)
    IN  /\ r.bit_capacity < size_wanted
        /\ size_wanted % Pow2(c[1] + 2) = 0
        /\ r.bit_capacity >= CeilDiv(size_wanted, r.principal_root_order) * 2 + c[1] + 1
        /\ (c[1] >= 3 \/ c[1] = 2)

\* a direct call of ring_for_size has returned its ring to the caller
ReturnedToCaller == entry = "ring_for_size" /\ pc = "done"

\* ring_for_size has returned the inner ring to the ring multiplication
ReturnedToRing == Running("ring", "split")

\* C5: the ring that ring_for_size(bit_size) has returned is the ring built
\* from the (s, p - 1) of best, and it passes the four predicates for bit_size:
\* smaller than bit_size, bit_size divisible by 2^(s+2), room for
\* ceil(bit_size / order) * 2 + s + 1 bits, and s >= 3 or s = 2.
ReturnedRingValid ==
    /\ ReturnedToCaller =>
          /\ results[1] = FermatRing(best[1].s, best[1].p - 1)
          /\ PassesAll(args[1].bit_size, << best[1].s, best[1].p >>)
    /\ ReturnedToRing =>
          /\ Top.inner_ring = FermatRing(best[1].s, best[1].p - 1)
          /\ PassesAll(Top.ring.bit_capacity, << best[1].s, best[1].p >>)

\* in a run of multiply, ring_for_size has returned a ring with s >= 3 to a
\* nested call of the ring multiplication
ReturnedRingValidWitness ==
    /\ entry = "multiply"
    /\ ReturnedToRing
    /\ best[1].s >= 3
    /\ Len(stack) >= 3

\* the returned candidate is in the sweep, no passing candidate has a smaller
\* bit capacity, and none of the same bit capacity comes before it
SmallestFirst(size_wanted, chosen) ==
    /\ chosen \in Sweep(size_wanted)
    /\ PassesAll(size_wanted, chosen)
    /\ \A c \in Sweep(size_wanted) :
          PassesAll(size_wanted, c) =>
             /\ FermatRing(c[1], c[2] - 1).bit_capacity
                   >= FermatRing(chosen[1], chosen[2] - 1).bit_capacity
             /\ FermatRing(c[1], c[2] - 1).bit_capacity
                   = FermatRing(chosen[1], chosen[2] - 1).bit_capacity
                => ~Before(c, chosen)

\* C6: the ring that ring_for_size(bit_size) has returned is that of the
\* passing candidate of smallest bit capacity over the whole sweep, and of the
\* first such candidate in sweep order.
ReturnedRingSmallestFirst ==
    /\ ReturnedToCaller =>
          /\ results[1] = best[1].r
          /\ SmallestFirst(args[1].bit_size, << best[1].s, best[1].p >>)
    /\ ReturnedToRing =>
          /\ Top.inner_ring = best[1].r
          /\ SmallestFirst(Top.ring.bit_capacity, << best[1].s, best[1].p >>)

\* ring_for_size has returned a ring for which another passing candidate,
\* later in the sweep, has the same bit capacity
ReturnedRingSmallestFirstWitness ==
    /\ ReturnedToCaller
    /\ \E c \in Sweep(args[1].bit_size) :
          /\ PassesAll(args[1].bit_size, c)
          /\ c # << best[1].s, best[1].p >>
          /\ FermatRing(c[1], c[2] - 1).bit_capacity = results[1].bit_capacity

NoCandidatePasses(size_wanted) ==
    \A c \in Sweep(size_wanted) : ~PassesAll(size_wanted, c)

\* C7: ring_for_size(bit_size) throws exactly when no candidate of the sweep
\* passes the four predicates, and returns a ring otherwise; the error carries
\* bit_size; nothing catches it: every call on the stack has ended, the
\* caller has got no result, and nothing runs any more.
ThrowsExactlyWhenNoCandidate ==
    /\ pc = "thrown" =>
          /\ err = [thrown |-> TRUE, value |-> bit_size]
          /\ entry = "ring_for_size" => bit_size = args[1].bit_size
          /\ NoCandidatePasses(bit_size)
          /\ stack = << >>
          /\ results = << >>
          /\ ~ENABLED NextSize
    /\ ReturnedToCaller => ~NoCandidatePasses(args[1].bit_size) /\ err = NoError
    /\ ReturnedToRing => ~NoCandidatePasses(Top.ring.bit_capacity) /\ err = NoError

\* the error was thrown under a nested call of the ring multiplication, for
\* the bit capacity of an inner ring
ThrowsExactlyWhenNoCandidateWitness ==
    /\ pc = "thrown"
    /\ entry = "ring"
    /\ err.value < args[1].ring.bit_capacity


\* the runs on sizes, in which a step that can be taken is taken
FairSpecSize == SpecSize /\ WF_vars(NextSize)

\* the frames of multiply on the stack
MultiplyFrames == { i \in 1..Len(stack) : stack[i].fn = "multiply" }

\* each nested call of the ring multiplication runs in the inner ring of its
\* caller, of strictly smaller bit capacity; multiply is on the stack at most
\* three times (the call and two nested self-calls), below the ring
\* multiplication
Descends ==
    /\ \A i \in 1..(Len(stack) - 1) :
          (stack[i].fn = "ring" /\ stack[i + 1].fn = "ring") =>
              /\ stack[i + 1].ring = stack[i].inner_ring
              /\ stack[i + 1].ring.bit_capacity < stack[i].ring.bit_capacity
    /\ Cardinality(MultiplyFrames) <= 3
    /\ \A i \in MultiplyFrames : \A j \in 1..i : j \in MultiplyFrames

\* a ring multiplication that makes no nested call has ended in the base case
\* or in a -1 special case, or ring_for_size has thrown
Ended == pc \in {"done", "thrown"}

\* C8: the recursion terminates: every nested call of the ring multiplication
\* runs in an inner ring of strictly smaller bit capacity than its caller's,
\* multiply makes at most two nested self-calls before it delegates, and
\* every run ends, with the result returned or with the error of ring_for_size.
RecursionTerminates == []Descends /\ <>Ended

\* a nested call in the fourth ring of a chain, under two self-calls of multiply
RecursionTerminatesWitness ==
    /\ Cardinality(MultiplyFrames) = 3
    /\ Len(stack) >= 7
    /\ stack[7].ring.bit_capacity < stack[6].ring.bit_capacity
    /\ Running("ring", "entry")

\* C10: in the runs started from multiply, ring_for_size never throws: it is
\* not called for a ring whose bit capacity is under 32 and not 16, or is 40,
\* and for every other ring reached its loops end with a ring found.
MultiplyNeverThrows ==
    entry = "multiply" =>
        /\ pc # "thrown"
        /\ (pc = "select" /\ s = 0) => best # undefined
        /\ pc = "select" =>
              ~ \/ (Top.ring.bit_capacity < 32 /\ Top.ring.bit_capacity # 16)
                \/ Top.ring.bit_capacity = 40
        /\ (Running("ring", "entry") /\ ~ENABLED RingBaseCaseSized) =>
              ~ \/ (Top.ring.bit_capacity < 32 /\ Top.ring.bit_capacity # 16)
                \/ Top.ring.bit_capacity = 40

\* in a run of multiply, the ring of 40 bits, inner ring of the top ring of
\* 256 bits, is at its entry
MultiplyNeverThrowsWitness ==
    /\ entry = "multiply"
    /\ Running("ring", "entry")
    /\ Top.ring.bit_capacity = 40
    /\ Len(stack) >= 3
    /\ stack[Len(stack) - 1].ring.bit_capacity = 256

====
